---- MODULE Spec2Model ----
(***************************************************************************)
(* Model of UploadController.create (src/controllers/upload-controller-2.js) *)
(* one upload request: missing-file check, upload-type parsing, the fetch  *)
(* of the uploaded CTC numbers, the csv-parser 'data' and 'end' handlers,  *)
(* the csv-writer write and the 201 response.                              *)
(*                                                                         *)
(* JavaScript objects are modelled as functions from property names to     *)
(* strings.  The row objects emitted by the parser live in `rows`, in      *)
(* emission order; the arrays `results` and `rejectedRows` hold references *)
(* (indices into `rows`), as JavaScript arrays hold object references.     *)
(*                                                                         *)
(* Spec is one request; SpecTwo is two concurrent calls of create(), each  *)
(* with its own locals in `calls`, sharing the files of `disk`.            *)
(***************************************************************************)
EXTENDS Integers, Sequences, FiniteSets, TLC

\* ------------------------------------------------------------------ bounds
\* Largest number of lines in an uploaded file.
MaxRows == 3

\* ------------------------------------------------------- values and inputs
\* JavaScript's undefined and null, and "no error / nothing yet".
Undefined == "undefined"
Null == "null"
None == "none"

\* Cell values of the uploaded files and ctc_number values of the service.
Values == {"CTC100", "CTC200"}

\* A parsed line, by cell position: only positions 0 and 12 are ever read.
\* A short line has no cell at position 12.
Lines == [{0} -> Values] \cup [{0, 12} -> Values]

RECURSIVE SeqsUpTo(_, _)
SeqsUpTo(S, n) ==
  IF n = 0 THEN {<<>>}
  ELSE LET shorter == SeqsUpTo(S, n - 1)
       IN shorter \cup {Append(s, x) : s \in {t \in shorter : Len(t) = n - 1}, x \in S}

\* req.file.originalname, represented by its underscore-delimited segments.
FileNames ==
  { <<"batch", "clients", "001.csv">>,
    <<"batch", "contacts", "002.csv">>,
    <<"batch", "results", "003.csv">>,
    <<"batch", "other", "004.csv">>,
    <<"batch.csv">> }

\* req.decoded.data: the caller identity of the authenticated request.
Decoded == [providerId |-> "P7", team |-> "Alpha", teamId |-> "T3", locationId |-> "L9"]

NoFile == [present |-> FALSE, originalname |-> <<>>, buffer |-> <<>>]

\* The requests create() is called with: without a file, or with a file
\* of a given name and content.
Requests ==
  { [file |-> NoFile, decoded |-> Decoded] }
  \cup { [file |-> [present |-> TRUE, originalname |-> n, buffer |-> b], decoded |-> Decoded] :
           n \in FileNames, b \in SeqsUpTo(Lines, MaxRows) }

\* Responses of GET /get-uploaded-ctc-numbers: ok flag and the ctc_number
\* values of the JSON body.
FetchResponses ==
  { [ok |-> FALSE, ctcNumbers |-> {}] }
  \cup { [ok |-> TRUE, ctcNumbers |-> s] : s \in SUBSET Values }

NoResponse == [ok |-> FALSE, ctcNumbers |-> {}, received |-> FALSE]

\* ------------------------------------------------------------ error values
MissingFile == "No file provided!"
UpstreamUnavailable == "CTC Deuplicator checker unavailable. Retry later!"
InvalidUploadType == "Invalid upload type: null"
NoAcceptableRows == "All rows were rejected."
WriteFailure == "writeRecords rejected"

\* ------------------------------------------------------------------- state
VARIABLES
  pc,                  \* position of the request in create() and its callbacks
  req,                 \* the request create() was called with
  uploadType,          \* const uploadType
  ctcNumbersResponse,  \* const ctcNumbersResponse
  fetchCalls,          \* number of calls of fetch()
  existingCtcNumbers,  \* const existingCtcNumbers
  rows,                \* the row objects emitted by csvStream so far
  results,             \* const results (references into rows)
  rejectedRows,        \* const rejectedRows (references into rows)
  isFirstRow,          \* let isFirstRow
  csvWriter,           \* const csvWriter: path and header
  writeCalls,          \* number of calls of csvWriter.writeRecords
  outFile,             \* the file at filePath
  res,                 \* the response sent through response.api
  nextError,           \* the error passed to next()
  unhandledRejection,  \* the error the async 'end' handler rejected with
  calls,               \* two concurrent calls of create(): the locals of each
  disk                 \* the files under public/, by path, the calls write to

vars == <<pc, req, uploadType, ctcNumbersResponse, fetchCalls, existingCtcNumbers,
          rows, results, rejectedRows, isFirstRow, csvWriter, writeCalls, outFile,
          res, nextError, unhandledRejection, calls, disk>>

\* The state of the single request of Spec.
requestVars == <<pc, req, uploadType, ctcNumbersResponse, fetchCalls, existingCtcNumbers,
                 rows, results, rejectedRows, isFirstRow, csvWriter, writeCalls, outFile,
                 res, nextError, unhandledRejection>>

NoWriter == [created |-> FALSE, path |-> <<>>, header |-> {}, alwaysQuote |-> FALSE]
NoOutFile == [exists |-> FALSE, path |-> <<>>, header |-> {}, records |-> <<>>]
NoPayload == [token |-> Null, authenticated |-> FALSE, message |-> "",
              rejected |-> FALSE, rejectedRows |-> <<>>]
NoRes == [status |-> 0, payload |-> NoPayload]

\* The two concurrent calls and the caller identity of each.
CallIds == {1, 2}

DecodedOf(c) ==
  IF c = 1 THEN Decoded
  ELSE [providerId |-> "P8", team |-> "Bravo", teamId |-> "T4", locationId |-> "L2"]

\* The locals of a call of create() that has not started.
IdleCall(c) ==
  [pc |-> "idle", req |-> [file |-> NoFile, decoded |-> DecodedOf(c)],
   uploadType |-> Undefined, existingCtcNumbers |-> {}, rows |-> <<>>, results |-> <<>>,
   rejectedRows |-> <<>>, isFirstRow |-> TRUE, csvWriter |-> NoWriter, res |-> NoRes,
   nextError |-> None, unhandledRejection |-> None]

Init ==
  /\ pc = "idle"
  /\ req = [file |-> NoFile, decoded |-> Decoded]
  /\ uploadType = Undefined
  /\ ctcNumbersResponse = NoResponse
  /\ fetchCalls = 0
  /\ existingCtcNumbers = {}
  /\ rows = <<>>
  /\ results = <<>>
  /\ rejectedRows = <<>>
  /\ isFirstRow = TRUE
  /\ csvWriter = NoWriter
  /\ writeCalls = 0
  /\ outFile = NoOutFile
  /\ res = NoRes
  /\ nextError = None
  /\ unhandledRejection = None
  /\ calls = [c \in CallIds |-> IdleCall(c)]
  /\ disk = <<>>

\* ------------------------------------------------------------ pure helpers
\* obj.k: the property's value, undefined when the object has no such key.
Get(obj, k) == IF k \in DOMAIN obj THEN obj[k] ELSE Undefined

\* obj.k = v
Set(obj, k, v) == [x \in (DOMAIN obj) \cup {k} |-> IF x = k THEN v ELSE obj[x]]

\* The elements of an array.
Range(arr) == {arr[i] : i \in DOMAIN arr}

\* fileNameParts[1] of originalFileName.split("_"): the second segment.
fileNamePart1(originalname) ==
  IF Len(originalname) >= 2 THEN originalname[2] ELSE Undefined

\* ["clients","contacts","results"].includes(fileNameParts[1]) ? fileNameParts[1] : null
parseUploadType(originalname) ==
  IF fileNamePart1(originalname) \in {"clients", "contacts", "results"}
  THEN fileNamePart1(originalname)
  ELSE Null

\* csvParser({ headers: true }): no line is taken as header; the cell at
\* position i becomes the property "_i" of the row object.
headerKey(i) == IF i = 0 THEN "_0" ELSE "_12"

parseLine(line) ==
  [k \in {headerKey(i) : i \in DOMAIN line} |->
     LET i == CHOOSE j \in DOMAIN line : headerKey(j) = k IN line[i]]

\* The rejection reason the 'data' handler computes; "" accepts the row.
rejectionReasonFor_DupOn12(type, existing, data) ==
  IF type = "clients" /\ Get(data, "_12") \in existing
  THEN "Duplicate CTC number in clients file"
  ELSE IF type \in {"contacts", "results"} /\ Get(data, "_12") \notin existing
  THEN (IF type = "contacts"
        THEN "No matching index client CTC number in contacts file"
        ELSE "No matching index client CTC number in results file")
  ELSE ""

rejectionReasonFor_SameText(type, existing, data) ==
  IF type = "clients" /\ Get(data, "_0") \in existing
  THEN "Duplicate CTC number in clients file"
  ELSE IF type \in {"contacts", "results"} /\ Get(data, "_12") \notin existing
  THEN "No matching index client CTC number in contacts file"
  ELSE ""

rejectionReasonFor_AnyOtherType(type, existing, data) ==
  IF type = "clients" /\ Get(data, "_0") \in existing
  THEN "Duplicate CTC number in clients file"
  ELSE IF type # "clients" /\ Get(data, "_12") \notin existing
  THEN (IF type = "contacts"
        THEN "No matching index client CTC number in contacts file"
        ELSE "No matching index client CTC number in results file")
  ELSE ""

rejectionReasonFor(type, existing, data) ==
  IF type = "clients" /\ Get(data, "_0") \in existing
  THEN "Duplicate CTC number in clients file"
  ELSE IF type \in {"contacts", "results"} /\ Get(data, "_12") \notin existing
  THEN (IF type = "contacts"
        THEN "No matching index client CTC number in contacts file"
        ELSE "No matching index client CTC number in results file")
  ELSE ""

\* The reject branch: data.rejectionReason = rejectionReason
reject_WithLabel(data, rejectionReason) ==
  Set(Set(data, "providerId", "providerId"), "rejectionReason", rejectionReason)

reject(data, rejectionReason) == Set(data, "rejectionReason", rejectionReason)

\* The accept branch: the four fields the row gains.
enrich_AlwaysCaller(data, first, decoded) ==
  Set(Set(Set(Set(data, "providerId", decoded.providerId), "team", decoded.team),
          "teamId", decoded.teamId), "locationId", decoded.locationId)

enrich(data, first, decoded) ==
  IF first
  THEN Set(Set(Set(Set(data, "providerId", "providerId"), "team", "team"),
               "teamId", "teamId"), "locationId", "locationId")
  ELSE Set(Set(Set(Set(data, "providerId", decoded.providerId), "team", decoded.team),
               "teamId", decoded.teamId), "locationId", decoded.locationId)

\* results after the handler ran for the row object `ref`.
pushResults_Always(arr, rejectionReason, ref) == Append(arr, ref)

pushResults(arr, rejectionReason, ref) ==
  IF rejectionReason # "" THEN arr ELSE Append(arr, ref)

\* rejectedRows after the handler ran for the row object `ref`.
pushRejectedRows_Unshift(arr, rejectionReason, ref) ==
  IF rejectionReason # "" THEN <<ref>> \o arr ELSE arr

pushRejectedRows(arr, rejectionReason, ref) ==
  IF rejectionReason # "" THEN Append(arr, ref) ELSE arr

\* The switch of the 'end' handler: undefined stands for the default case.
uploadDirectoryFor_NoDefault(type) ==
  CASE type = "clients" -> "index_uploads"
    [] type = "contacts" -> "contacts_uploads"
    [] type = "results" -> "results_uploads"
    [] OTHER -> "uploads"

uploadDirectoryFor(type) ==
  CASE type = "clients" -> "index_uploads"
    [] type = "contacts" -> "contacts_uploads"
    [] type = "results" -> "results_uploads"
    [] OTHER -> Undefined

\* The error the 'end' handler throws before it writes, none if it writes.
endError_TypeFirst(arr, type) ==
  IF uploadDirectoryFor(type) = Undefined THEN InvalidUploadType
  ELSE IF Len(arr) > 0 THEN None
  ELSE NoAcceptableRows

endError(arr, type) ==
  IF Len(arr) > 0
  THEN (IF uploadDirectoryFor(type) = Undefined THEN InvalidUploadType ELSE None)
  ELSE NoAcceptableRows

\* if (!ctcNumbersResponse.ok) throw
fetchThrows_Never(response) == FALSE

fetchThrows(response) == ~response.ok

\* arr.slice(start): the elements from the 0-based index start on.
slice_Whole(arr, start) == arr

slice(arr, start) == SubSeq(arr, start + 1, Len(arr))

\* header: Object.keys(results[0]), the keys of the first accepted row.
headerOf_LastRow(arr, objs) == DOMAIN objs[arr[Len(arr)]]

headerOf(arr, objs) == DOMAIN objs[arr[1]]

\* csv-writer: a field as written, between double quotes with alwaysQuote.
quoteField(value, alwaysQuote) ==
  IF alwaysQuote THEN <<"\"", value, "\"">> ELSE <<value>>

\* csv-writer: the record as written, one field per header key; a key the
\* record lacks is written as the empty string, a key outside the header
\* is not written.
stringifyRecord(header, alwaysQuote, record) ==
  [k \in header |-> quoteField(IF k \in DOMAIN record THEN record[k] ELSE "", alwaysQuote)]

\* ----------------------------------------------------------------- actions
\* create() with the missing-file check placed after the fetch.
create_CheckAfterFetch ==
  /\ pc = "idle"
  /\ \E r \in Requests :
       /\ req' = r
       /\ fetchCalls' = fetchCalls + 1
       /\ IF ~r.file.present
          THEN /\ nextError' = MissingFile
               /\ pc' = "aborted"
               /\ UNCHANGED uploadType
          ELSE /\ uploadType' = parseUploadType(r.file.originalname)
               /\ pc' = "fetching"
               /\ UNCHANGED nextError
  /\ UNCHANGED <<ctcNumbersResponse, existingCtcNumbers, rows, results, rejectedRows,
                 isFirstRow, csvWriter, writeCalls, outFile, res, unhandledRejection>>
  /\ UNCHANGED <<calls, disk>>

\* create() up to the await of fetch(): the missing-file check (caught by
\* the catch block, which calls next(error)), the upload type, the fetch.
create ==
  /\ pc = "idle"
  /\ \E r \in Requests :
       /\ req' = r
       /\ IF ~r.file.present
          THEN /\ nextError' = MissingFile
               /\ pc' = "aborted"
               /\ UNCHANGED <<uploadType, fetchCalls>>
          ELSE /\ uploadType' = parseUploadType(r.file.originalname)
               /\ fetchCalls' = fetchCalls + 1
               /\ pc' = "fetching"
               /\ UNCHANGED nextError
  /\ UNCHANGED <<ctcNumbersResponse, existingCtcNumbers, rows, results, rejectedRows,
                 isFirstRow, csvWriter, writeCalls, outFile, res, unhandledRejection>>
  /\ UNCHANGED <<calls, disk>>

\* The fetch resolves. Not ok: throw, caught, next(error). Ok: the reference
\* set is read, the buffers and handlers are set up and the stream is piped.
fetchResolved ==
  /\ pc = "fetching"
  /\ \E r \in FetchResponses :
       /\ ctcNumbersResponse' = [ok |-> r.ok, ctcNumbers |-> r.ctcNumbers, received |-> TRUE]
       /\ IF fetchThrows(r)
          THEN /\ nextError' = UpstreamUnavailable
               /\ pc' = "aborted"
               /\ UNCHANGED <<existingCtcNumbers, results, rejectedRows, isFirstRow>>
          ELSE /\ existingCtcNumbers' = r.ctcNumbers
               /\ results' = <<>>
               /\ rejectedRows' = <<>>
               /\ isFirstRow' = TRUE
               /\ pc' = "streaming"
               /\ UNCHANGED nextError
  /\ UNCHANGED <<req, uploadType, fetchCalls, rows, csvWriter, writeCalls, outFile, res,
                 unhandledRejection>>
  /\ UNCHANGED <<calls, disk>>

\* The 'data' handler with the identifier of every accepted row added to the
\* reference set.
csvStreamOnData_Dedupe ==
  /\ pc = "streaming"
  /\ Len(rows) < Len(req.file.buffer)
  /\ LET ref == Len(rows) + 1
         data == parseLine(req.file.buffer[ref])
         rejectionReason == rejectionReasonFor(uploadType, existingCtcNumbers, data)
     IN /\ rows' = Append(rows, IF rejectionReason # ""
                                THEN reject(data, rejectionReason)
                                ELSE enrich(data, isFirstRow, req.decoded))
        /\ results' = pushResults(results, rejectionReason, ref)
        /\ rejectedRows' = pushRejectedRows(rejectedRows, rejectionReason, ref)
        /\ isFirstRow' = IF rejectionReason # "" THEN isFirstRow ELSE FALSE
        /\ existingCtcNumbers' = IF rejectionReason # "" THEN existingCtcNumbers
                                 ELSE existingCtcNumbers \cup {Get(data, "_0")}
  /\ UNCHANGED <<pc, req, uploadType, ctcNumbersResponse, fetchCalls,
                 csvWriter, writeCalls, outFile, res, nextError, unhandledRejection>>
  /\ UNCHANGED <<calls, disk>>

\* csvStream.on("data"): the next line of the file is parsed and classified.
csvStreamOnData ==
  /\ pc = "streaming"
  /\ Len(rows) < Len(req.file.buffer)
  /\ LET ref == Len(rows) + 1
         data == parseLine(req.file.buffer[ref])
         rejectionReason == rejectionReasonFor(uploadType, existingCtcNumbers, data)
     IN /\ rows' = Append(rows, IF rejectionReason # ""
                                THEN reject(data, rejectionReason)
                                ELSE enrich(data, isFirstRow, req.decoded))
        /\ results' = pushResults(results, rejectionReason, ref)
        /\ rejectedRows' = pushRejectedRows(rejectedRows, rejectionReason, ref)
        /\ isFirstRow' = IF rejectionReason # "" THEN isFirstRow ELSE FALSE
  /\ UNCHANGED <<pc, req, uploadType, ctcNumbersResponse, fetchCalls, existingCtcNumbers,
                 csvWriter, writeCalls, outFile, res, nextError, unhandledRejection>>
  /\ UNCHANGED <<calls, disk>>

\* The 'end' handler with the await of writeRecords left out: the payload
\* is sent as soon as the write is started.
csvStreamOnEnd_NoAwait ==
  /\ pc = "streaming"
  /\ Len(rows) = Len(req.file.buffer)
  /\ IF endError(results, uploadType) # None
     THEN /\ unhandledRejection' = endError(results, uploadType)
          /\ pc' = "done"
          /\ UNCHANGED <<csvWriter, writeCalls, res>>
     ELSE /\ csvWriter' = [created |-> TRUE,
                           path |-> <<uploadDirectoryFor(uploadType)>> \o req.file.originalname,
                           header |-> headerOf(results, rows),
                           alwaysQuote |-> TRUE]
          /\ writeCalls' = writeCalls + 1
          /\ res' = [status |-> 201,
                     payload |-> [token |-> Null, authenticated |-> TRUE,
                                  message |-> "File uploaded, processed, and saved successfully!",
                                  rejected |-> Len(rejectedRows) > 0,
                                  rejectedRows |-> IF Len(rejectedRows) > 0
                                                   THEN slice(rejectedRows, 1)
                                                   ELSE rejectedRows]]
          /\ pc' = "writing"
          /\ UNCHANGED unhandledRejection
  /\ UNCHANGED <<req, uploadType, ctcNumbersResponse, fetchCalls, existingCtcNumbers, rows,
                 results, rejectedRows, isFirstRow, outFile, nextError>>
  /\ UNCHANGED <<calls, disk>>

\* csvStream.on("end") up to the await of writeRecords. A throw in this
\* async handler rejects a promise nobody holds: it is not inside the try
\* block of create(), which has returned.
csvStreamOnEnd ==
  /\ pc = "streaming"
  /\ Len(rows) = Len(req.file.buffer)
  /\ IF endError(results, uploadType) # None
     THEN /\ unhandledRejection' = endError(results, uploadType)
          /\ pc' = "done"
          /\ UNCHANGED <<csvWriter, writeCalls>>
     ELSE /\ csvWriter' = [created |-> TRUE,
                           path |-> <<uploadDirectoryFor(uploadType)>> \o req.file.originalname,
                           header |-> headerOf(results, rows),
                           alwaysQuote |-> TRUE]
          /\ writeCalls' = writeCalls + 1
          /\ pc' = "writing"
          /\ UNCHANGED unhandledRejection
  /\ UNCHANGED <<req, uploadType, ctcNumbersResponse, fetchCalls, existingCtcNumbers, rows,
                 results, rejectedRows, isFirstRow, outFile, res, nextError>>
  /\ UNCHANGED <<calls, disk>>

\* writeRecords resolves: the file holds the records; the payload is built
\* and sent with status 201.
writeRecordsResolved ==
  /\ pc = "writing"
  /\ outFile' = [exists |-> TRUE, path |-> csvWriter.path, header |-> csvWriter.header,
                 records |-> [i \in DOMAIN results |->
                               stringifyRecord(csvWriter.header, csvWriter.alwaysQuote,
                                               rows[results[i]])]]
  /\ LET rejected == Len(rejectedRows) > 0
     IN res' = [status |-> 201,
                payload |-> [token |-> Null, authenticated |-> TRUE,
                             message |-> "File uploaded, processed, and saved successfully!",
                             rejected |-> rejected,
                             rejectedRows |-> IF rejected THEN slice(rejectedRows, 1)
                                              ELSE rejectedRows]]
  /\ pc' = "done"
  /\ UNCHANGED <<req, uploadType, ctcNumbersResponse, fetchCalls, existingCtcNumbers, rows,
                 results, rejectedRows, isFirstRow, csvWriter, writeCalls, nextError,
                 unhandledRejection>>
  /\ UNCHANGED <<calls, disk>>

\* writeRecords rejects: the async 'end' handler rejects with the error.
writeRecordsRejected ==
  /\ pc = "writing"
  /\ unhandledRejection' = WriteFailure
  /\ pc' = "done"
  /\ UNCHANGED <<req, uploadType, ctcNumbersResponse, fetchCalls, existingCtcNumbers, rows,
                 results, rejectedRows, isFirstRow, csvWriter, writeCalls, outFile, res,
                 nextError>>
  /\ UNCHANGED <<calls, disk>>

Next ==
  \/ create
  \/ fetchResolved
  \/ csvStreamOnData
  \/ csvStreamOnEnd
  \/ writeRecordsResolved
  \/ writeRecordsRejected

Spec == Init /\ [][Next]_vars

\* ------------------------------------------------- two concurrent requests
\* Every call of create() has its own locals (uploadType, existingCtcNumbers,
\* results, rejectedRows, isFirstRow, the handlers' closures): `calls` holds
\* them per call. The calls share the directory tree under public/: `disk`.

\* Largest number of lines in a file of the two concurrent requests.
MaxRowsTwo == 2

\* The lines, requests and fetch responses of the two concurrent requests.
LinesTwo == {l \in Lines : DOMAIN l = {0, 12} /\ l[0] = l[12]}

FileNamesTwo == {<<"batch", "clients", "001.csv">>, <<"batch", "contacts", "002.csv">>}

RequestsTwo(c) ==
  { [file |-> NoFile, decoded |-> DecodedOf(c)] }
  \cup { [file |-> [present |-> TRUE, originalname |-> n, buffer |-> b],
          decoded |-> DecodedOf(c)] :
           n \in FileNamesTwo, b \in SeqsUpTo(LinesTwo, MaxRowsTwo) }

FetchResponsesTwo ==
  {r \in FetchResponses : r.ctcNumbers \subseteq {"CTC100"}}

\* The locals of a call after create() ran up to the await of fetch().
createCall(s, r) ==
  IF ~r.file.present
  THEN [s EXCEPT !.req = r, !.nextError = MissingFile, !.pc = "aborted"]
  ELSE [s EXCEPT !.req = r, !.uploadType = parseUploadType(r.file.originalname),
                 !.pc = "fetching"]

\* The locals of a call after its fetch resolved with response r.
fetchResolvedCall(s, r) ==
  IF fetchThrows(r)
  THEN [s EXCEPT !.nextError = UpstreamUnavailable, !.pc = "aborted"]
  ELSE [s EXCEPT !.existingCtcNumbers = r.ctcNumbers, !.results = <<>>,
                 !.rejectedRows = <<>>, !.isFirstRow = TRUE, !.pc = "streaming"]

\* The locals of a call after its 'data' handler ran for the next line.
onDataCall(s) ==
  LET ref == Len(s.rows) + 1
      data == parseLine(s.req.file.buffer[ref])
      rejectionReason == rejectionReasonFor(s.uploadType, s.existingCtcNumbers, data)
  IN [s EXCEPT !.rows = Append(s.rows, IF rejectionReason # ""
                                       THEN reject(data, rejectionReason)
                                       ELSE enrich(data, s.isFirstRow, s.req.decoded)),
               !.results = pushResults(s.results, rejectionReason, ref),
               !.rejectedRows = pushRejectedRows(s.rejectedRows, rejectionReason, ref),
               !.isFirstRow = IF rejectionReason # "" THEN s.isFirstRow ELSE FALSE]

\* The locals of a call after its 'end' handler ran up to the await of
\* writeRecords, or threw.
onEndCall(s) ==
  IF endError(s.results, s.uploadType) # None
  THEN [s EXCEPT !.unhandledRejection = endError(s.results, s.uploadType), !.pc = "done"]
  ELSE [s EXCEPT !.csvWriter = [created |-> TRUE,
                                path |-> <<uploadDirectoryFor(s.uploadType)>>
                                           \o s.req.file.originalname,
                                header |-> headerOf(s.results, s.rows),
                                alwaysQuote |-> TRUE],
                 !.pc = "writing"]

\* What writeRecords(results) of a call puts at its path.
writtenBy(s) ==
  [header |-> s.csvWriter.header,
   records |-> [i \in DOMAIN s.results |->
                 stringifyRecord(s.csvWriter.header, s.csvWriter.alwaysQuote,
                                 s.rows[s.results[i]])]]

\* The locals of a call after writeRecords resolved: the 201 response.
respondCall(s) ==
  [s EXCEPT !.res = [status |-> 201,
                     payload |-> [token |-> Null, authenticated |-> TRUE,
                                  message |-> "File uploaded, processed, and saved successfully!",
                                  rejected |-> Len(s.rejectedRows) > 0,
                                  rejectedRows |-> IF Len(s.rejectedRows) > 0
                                                   THEN slice(s.rejectedRows, 1)
                                                   ELSE s.rejectedRows]],
            !.pc = "done"]

callCreate(c) ==
  /\ calls[c].pc = "idle"
  /\ \E r \in RequestsTwo(c) : calls' = [calls EXCEPT ![c] = createCall(calls[c], r)]
  /\ UNCHANGED disk
  /\ UNCHANGED requestVars

callFetchResolved(c) ==
  /\ calls[c].pc = "fetching"
  /\ \E r \in FetchResponsesTwo : calls' = [calls EXCEPT ![c] = fetchResolvedCall(calls[c], r)]
  /\ UNCHANGED disk
  /\ UNCHANGED requestVars

\* The 'data' handler with isFirstRow declared once for the module instead
\* of once per call: an accept clears the flag of every call.
callOnData_SharedFlag(c) ==
  /\ calls[c].pc = "streaming"
  /\ Len(calls[c].rows) < Len(calls[c].req.file.buffer)
  /\ calls' = [d \in CallIds |->
                IF d = c THEN onDataCall(calls[c])
                ELSE [calls[d] EXCEPT !.isFirstRow = onDataCall(calls[c]).isFirstRow]]
  /\ UNCHANGED disk
  /\ UNCHANGED requestVars

callOnData(c) ==
  /\ calls[c].pc = "streaming"
  /\ Len(calls[c].rows) < Len(calls[c].req.file.buffer)
  /\ calls' = [calls EXCEPT ![c] = onDataCall(calls[c])]
  /\ UNCHANGED disk
  /\ UNCHANGED requestVars

callOnEnd(c) ==
  /\ calls[c].pc = "streaming"
  /\ Len(calls[c].rows) = Len(calls[c].req.file.buffer)
  /\ calls' = [calls EXCEPT ![c] = onEndCall(calls[c])]
  /\ UNCHANGED disk
  /\ UNCHANGED requestVars

\* writeRecords of a call resolves: the file at its path is replaced.
callWriteRecordsResolved(c) ==
  /\ calls[c].pc = "writing"
  /\ disk' = Set(disk, calls[c].csvWriter.path, writtenBy(calls[c]))
  /\ calls' = [calls EXCEPT ![c] = respondCall(calls[c])]
  /\ UNCHANGED requestVars

callWriteRecordsRejected(c) ==
  /\ calls[c].pc = "writing"
  /\ calls' = [calls EXCEPT ![c].unhandledRejection = WriteFailure, ![c].pc = "done"]
  /\ UNCHANGED disk
  /\ UNCHANGED requestVars

NextTwo ==
  \E c \in CallIds :
    \/ callCreate(c)
    \/ callFetchResolved(c)
    \/ callOnData(c)
    \/ callOnEnd(c)
    \/ callWriteRecordsResolved(c)
    \/ callWriteRecordsRejected(c)

SpecTwo == Init /\ [][NextTwo]_vars

\* ------------------------------------------------------------------ claims
\* The row at position 0 is in the reference set (first reject rule).
isDuplicate(i) == uploadType = "clients" /\ Get(rows[i], "_0") \in existingCtcNumbers

\* The row's position 12 is not in the reference set (second reject rule).
hasNoMatch(i) ==
  uploadType \in {"contacts", "results"} /\ Get(rows[i], "_12") \notin existingCtcNumbers

\* The 'end' handler has run.
streamEnded == pc \in {"writing", "done"}

\* C1: after any prefix of rows, every processed row is in exactly one of
\* results and rejectedRows, and the two sizes sum to the rows processed.
C1_ExactlyOneBuffer ==
  /\ \A i \in DOMAIN rows : (i \in Range(results)) # (i \in Range(rejectedRows))
  /\ Len(results) + Len(rejectedRows) = Len(rows)

C1_Witness == Len(rows) >= 2 /\ results # <<>> /\ rejectedRows # <<>>

\* C2 as stated: in a clients upload every row whose position 0 is in the
\* reference set is rejected with "Duplicate identifier in clients file".
C2_DuplicateIdentifierText ==
  \A i \in DOMAIN rows :
    isDuplicate(i) =>
      /\ i \in Range(rejectedRows)
      /\ Get(rows[i], "rejectionReason") = "Duplicate identifier in clients file"

\* C2 amended: in a clients upload every row whose position 0 is in the
\* reference set is rejected, wherever it is in the stream, and its reason
\* is "Duplicate CTC number in clients file".
C2_DuplicateRejected ==
  \A i \in DOMAIN rows :
    isDuplicate(i) =>
      /\ i \in Range(rejectedRows)
      /\ i \notin Range(results)
      /\ Get(rows[i], "rejectionReason") = "Duplicate CTC number in clients file"

C2_Witness ==
  /\ uploadType = "clients"
  /\ \E i \in DOMAIN rows : i > 1 /\ isDuplicate(i) /\ ~isDuplicate(1)

\* C3 as stated: in a contacts or results upload every row whose position
\* 12 is not in the reference set is rejected with "No matching index client
\* identifier in contacts file" or "... in results file", by upload type.
C3_NoMatchIdentifierText ==
  \A i \in DOMAIN rows :
    hasNoMatch(i) =>
      /\ i \in Range(rejectedRows)
      /\ Get(rows[i], "rejectionReason") =
           (IF uploadType = "contacts"
            THEN "No matching index client identifier in contacts file"
            ELSE "No matching index client identifier in results file")

\* C3 amended: in a contacts or results upload every row whose position 12
\* is not in the reference set is rejected, with reason "No matching index
\* client CTC number in contacts file" for contacts and "No matching index
\* client CTC number in results file" for results.
C3_NoMatchRejected ==
  \A i \in DOMAIN rows :
    hasNoMatch(i) =>
      /\ i \in Range(rejectedRows)
      /\ i \notin Range(results)
      /\ uploadType = "contacts" =>
           Get(rows[i], "rejectionReason") = "No matching index client CTC number in contacts file"
      /\ uploadType = "results" =>
           Get(rows[i], "rejectionReason") = "No matching index client CTC number in results file"

C3_Witness ==
  /\ uploadType = "results"
  /\ \E i, j \in DOMAIN rows : hasNoMatch(i) /\ "_12" \in DOMAIN rows[i] /\ ~hasNoMatch(j)

\* C4: a row not covered by the two reject rules is accepted (and gains no
\* rejection reason); with a null upload type rejectedRows stays empty.
C4_OtherwiseAccepted ==
  /\ \A i \in DOMAIN rows :
       ~(isDuplicate(i) \/ hasNoMatch(i)) =>
         /\ i \in Range(results)
         /\ i \notin Range(rejectedRows)
         /\ "rejectionReason" \notin DOMAIN rows[i]
  /\ uploadType = Null => rejectedRows = <<>>

C4_Witness ==
  /\ uploadType = Null
  /\ Len(results) >= 2
  /\ \E i \in DOMAIN rows : Get(rows[i], "_12") \notin existingCtcNumbers
  /\ \E i \in DOMAIN rows : Get(rows[i], "_0") \in existingCtcNumbers

\* C5: once the stream is exhausted with an empty accepted buffer, the
\* request has failed with NoAcceptableRows, no write was started, no file
\* exists and no 201 response was sent.
C5_NoAcceptableRows ==
  (streamEnded /\ Len(results) = 0) =>
    /\ pc = "done"
    /\ unhandledRejection = NoAcceptableRows
    /\ writeCalls = 0
    /\ ~outFile.exists
    /\ res.status # 201

C5_Witness == streamEnded /\ Len(results) = 0 /\ Len(rejectedRows) >= 2

\* C6: when the fetch answers not ok the request is aborted with
\* UpstreamUnavailable: no row is read or classified, the stream is not
\* piped, nothing is written, and fetch was called once.
C6_UpstreamUnavailable ==
  (ctcNumbersResponse.received /\ ~ctcNumbersResponse.ok) =>
    /\ pc = "aborted"
    /\ nextError = UpstreamUnavailable
    /\ rows = <<>>
    /\ results = <<>>
    /\ rejectedRows = <<>>
    /\ writeCalls = 0
    /\ ~outFile.exists
    /\ res.status # 201
    /\ fetchCalls = 1

C6_Witness ==
  ctcNumbersResponse.received /\ ~ctcNumbersResponse.ok /\ Len(req.file.buffer) >= 2

\* C7: every error raised while handling the request, those of the 'end'
\* handler included, is forwarded to next().
C7_AllErrorsForwarded ==
  \A e \in {MissingFile, UpstreamUnavailable, NoAcceptableRows, InvalidUploadType, WriteFailure} :
    (nextError = e \/ unhandledRejection = e) => nextError = e

\* C8: the output file exists only if the request had a file, the fetch was
\* ok, the stream was consumed to its end, the accepted buffer is non-empty,
\* the upload type maps to a directory and no error was raised; writeRecords
\* is called at most once, and only after the last row.
C8_FileOnlyOnSuccess ==
  /\ outFile.exists =>
       /\ req.file.present
       /\ ctcNumbersResponse.received /\ ctcNumbersResponse.ok
       /\ streamEnded /\ Len(rows) = Len(req.file.buffer)
       /\ Len(results) > 0
       /\ uploadType \in {"clients", "contacts", "results"}
       /\ nextError = None /\ unhandledRejection = None
  /\ writeCalls <= 1
  /\ writeCalls > 0 =>
       /\ streamEnded /\ Len(rows) = Len(req.file.buffer)
       /\ Len(results) > 0
       /\ uploadType \in {"clients", "contacts", "results"}
  /\ ~streamEnded => ~outFile.exists /\ ~csvWriter.created

C8_Witness == outFile.exists /\ Len(rows) >= 2 /\ rejectedRows # <<>>

\* C9: in the 201 payload, rejected is true exactly when rejectedRows is
\* non-empty; the payload's rejectedRows is then the buffer without its
\* first entry, in the same order, and the empty buffer otherwise.
C9_ReportDropsFirstRejected ==
  res.status = 201 =>
    LET payload == res.payload
    IN /\ payload.rejected = (Len(rejectedRows) > 0)
       /\ IF payload.rejected
          THEN /\ Len(payload.rejectedRows) = Len(rejectedRows) - 1
               /\ \A i \in 1..(Len(rejectedRows) - 1) :
                    payload.rejectedRows[i] = rejectedRows[i + 1]
          ELSE payload.rejectedRows = <<>>

C9_Witness == res.status = 201 /\ Len(rejectedRows) >= 2

\* C10: a clients upload of a header row, one row whose identifier is in the
\* reference set and one row whose identifier is not, succeeds (unless the
\* write itself fails) with rejected = true, a rejectedRows list that holds
\* the duplicate row with reason "Duplicate identifier in clients file", and
\* one data row accepted besides the header row.
C10_ClientsScenario ==
  ( /\ pc = "done"
    /\ unhandledRejection # WriteFailure
    /\ uploadType = "clients"
    /\ Len(rows) = 3
    /\ Cardinality({i \in DOMAIN rows : isDuplicate(i)}) = 1 )
  =>
    /\ res.status = 201
    /\ res.payload.rejected
    /\ \E j \in DOMAIN res.payload.rejectedRows :
         /\ isDuplicate(res.payload.rejectedRows[j])
         /\ Get(rows[res.payload.rejectedRows[j]], "rejectionReason")
              = "Duplicate identifier in clients file"
    /\ Len(results) = 2

\* C11: an upload type outside clients/contacts/results never aborts the
\* request before or during the stream: no error is forwarded or raised
\* while rows arrive and every row read is classified; the request fails
\* only once the stream is exhausted, with InvalidUploadType if the accepted
\* buffer is non-empty and with NoAcceptableRows if it is empty, and no file
\* is written.
C11_InvalidTypeSurfacesAtEnd ==
  (uploadType = Null /\ ctcNumbersResponse.received /\ ctcNumbersResponse.ok) =>
    /\ pc \in {"streaming", "done"}
    /\ nextError = None
    /\ Len(results) + Len(rejectedRows) = Len(rows)
    /\ pc = "streaming" => unhandledRejection = None
    /\ pc = "done" =>
         /\ Len(rows) = Len(req.file.buffer)
         /\ unhandledRejection =
              (IF Len(results) > 0 THEN InvalidUploadType ELSE NoAcceptableRows)
    /\ writeCalls = 0
    /\ ~csvWriter.created
    /\ ~outFile.exists
    /\ res.status # 201

C11_Witness ==
  /\ uploadType = Null
  /\ pc = "done"
  /\ Len(results) >= 2
  /\ unhandledRejection = InvalidUploadType

\* The four fields the accept branch adds to a row.
identityFields == {"providerId", "team", "teamId", "locationId"}

\* The row object holds the four label strings.
isLabelRow(row) == \A k \in identityFields : Get(row, k) = k

\* The row object holds the caller's four values.
hasCallerIdentity(row) ==
  /\ Get(row, "providerId") = req.decoded.providerId
  /\ Get(row, "team") = req.decoded.team
  /\ Get(row, "teamId") = req.decoded.teamId
  /\ Get(row, "locationId") = req.decoded.locationId

\* C12: whenever the accepted buffer is non-empty its first entry is the
\* label row (the four fields hold their own names, not the caller's
\* values), every later entry holds the caller's providerId, team, teamId
\* and locationId, and exactly one row of the request is a label row.
C12_LabelRowFirst ==
  Len(results) > 0 =>
    /\ isLabelRow(rows[results[1]])
    /\ ~hasCallerIdentity(rows[results[1]])
    /\ \A i \in 2..Len(results) :
         hasCallerIdentity(rows[results[i]]) /\ ~isLabelRow(rows[results[i]])
    /\ Cardinality({i \in DOMAIN rows : isLabelRow(rows[i])}) = 1
    /\ ~isFirstRow

C12_Witness ==
  /\ Len(results) >= 2
  /\ rejectedRows # <<>>
  /\ rejectedRows[1] < results[1]

\* The columns of the uploaded file: the keys of its parsed lines.
fileColumns == UNION {DOMAIN parseLine(req.file.buffer[i]) : i \in DOMAIN req.file.buffer}

\* C13 as stated: when the write happens, the columns of the output file
\* are the original file's columns plus the four label fields, and the
\* records written are exactly the entries of the accepted buffer, in buffer
\* order, each value quoted.
C13_RecordsAreTheEntries ==
  outFile.exists =>
    /\ outFile.header = fileColumns \cup identityFields
    /\ Len(outFile.records) = Len(results)
    /\ \A i \in DOMAIN results :
         /\ DOMAIN outFile.records[i] = DOMAIN rows[results[i]]
         /\ \A k \in DOMAIN rows[results[i]] :
              outFile.records[i][k] = <<"\"", rows[results[i]][k], "\"">>

\* C13 amended: when the write happens, the columns of the output file are
\* the columns of the first accepted row (its cells plus the four label
\* fields); the records written are the entries of the accepted buffer, in
\* buffer order, each restricted to those columns: a field outside them is
\* not written, a missing one is written empty; every value is quoted.
C13_RecordsByFirstRowColumns ==
  outFile.exists =>
    /\ outFile.header = DOMAIN parseLine(req.file.buffer[results[1]]) \cup identityFields
    /\ outFile.header = DOMAIN rows[results[1]]
    /\ Len(outFile.records) = Len(results)
    /\ \A i \in DOMAIN results :
         /\ DOMAIN outFile.records[i] = outFile.header
         /\ \A k \in outFile.header :
              outFile.records[i][k] =
                <<"\"", (IF k \in DOMAIN rows[results[i]] THEN rows[results[i]][k] ELSE ""), "\"">>

C13_Witness ==
  /\ outFile.exists
  /\ \E i, j \in DOMAIN results :
       /\ "_12" \in DOMAIN rows[results[i]] /\ "_12" \notin outFile.header
       /\ "_12" \notin DOMAIN rows[results[j]]

\* C14: the steps of a request are sequential: fetch is called once, before
\* any row; a row is classified only after the fetch answered ok and the
\* reference set was read from it; each line is read once, in order; the
\* write is started at most once and only after the last row was
\* classified; the 201 response is sent only after the write completed.
C14_Sequential ==
  /\ fetchCalls <= 1
  /\ writeCalls <= 1
  /\ pc \in {"fetching", "streaming", "writing", "done"} => fetchCalls = 1
  /\ pc = "fetching" => ~ctcNumbersResponse.received /\ rows = <<>>
  /\ rows # <<>> =>
       /\ ctcNumbersResponse.received /\ ctcNumbersResponse.ok
       /\ existingCtcNumbers = ctcNumbersResponse.ctcNumbers
  /\ Len(rows) <= Len(req.file.buffer)
  /\ \A i \in DOMAIN rows :
       \A k \in DOMAIN parseLine(req.file.buffer[i]) :
         Get(rows[i], k) = parseLine(req.file.buffer[i])[k]
  /\ (writeCalls > 0 \/ csvWriter.created) =>
       /\ Len(rows) = Len(req.file.buffer)
       /\ Len(results) + Len(rejectedRows) = Len(rows)
       /\ pc \in {"writing", "done"}
  /\ pc = "writing" => ~outFile.exists /\ res.status # 201
  /\ res.status = 201 => outFile.exists /\ writeCalls = 1 /\ pc = "done"

C14_Witness == res.status = 201 /\ Len(rows) >= 2 /\ fetchCalls = 1 /\ writeCalls = 1

\* The field of the row the classification reads, by upload type.
designatedField(i) ==
  IF uploadType = "clients" THEN Get(rows[i], "_0") ELSE Get(rows[i], "_12")

\* s is a prefix of t.
isPrefix(s, t) == Len(s) <= Len(t) /\ \A i \in DOMAIN s : s[i] = t[i]

\* C16: the outcome of a row depends only on the upload type, the row's
\* designated field and the reference set: two rows of a request with the
\* same designated field have the same outcome and reason, wherever they
\* are in the stream; the reference set is the fetched one throughout; two
\* rows of a clients file with the same identifier, not in the reference
\* set, are both accepted.
C16_OutcomeByFieldOnly ==
  /\ \A i, j \in DOMAIN rows :
       (uploadType = Null \/ designatedField(i) = designatedField(j)) =>
         /\ (i \in Range(results)) = (j \in Range(results))
         /\ (i \in Range(rejectedRows)) = (j \in Range(rejectedRows))
         /\ Get(rows[i], "rejectionReason") = Get(rows[j], "rejectionReason")
  /\ pc \in {"streaming", "writing", "done"} =>
       existingCtcNumbers = ctcNumbersResponse.ctcNumbers
  /\ \A i, j \in DOMAIN rows :
       ( /\ uploadType = "clients"
         /\ Get(rows[i], "_0") = Get(rows[j], "_0")
         /\ Get(rows[i], "_0") \notin ctcNumbersResponse.ctcNumbers ) =>
         {i, j} \subseteq Range(results)

C16_Witness ==
  /\ uploadType = "clients"
  /\ \E i, j \in DOMAIN rows :
       /\ i # j
       /\ Get(rows[i], "_0") = Get(rows[j], "_0")
       /\ {i, j} \subseteq Range(results)

\* C17: a step that rejects a row appends it to rejectedRows and changes
\* nothing else: results, the first-row flag and the rows read before stay
\* as they were; the rejected row gains rejectionReason and none of the four
\* identity fields. No accepted row carries a rejectionReason, and the label
\* row is the first accepted row of the stream: every row before it was
\* rejected.
C17_RejectFrame ==
  /\ [][rejectedRows' # rejectedRows =>
         /\ results' = results
         /\ isFirstRow' = isFirstRow
         /\ Len(rows') = Len(rows) + 1
         /\ SubSeq(rows', 1, Len(rows)) = rows
         /\ rejectedRows' = Append(rejectedRows, Len(rows'))
         /\ DOMAIN rows'[Len(rows')] =
              DOMAIN parseLine(req.file.buffer[Len(rows')]) \cup {"rejectionReason"}
         /\ rows'[Len(rows')]["rejectionReason"] # ""
         /\ UNCHANGED <<pc, req, uploadType, ctcNumbersResponse, fetchCalls,
                        existingCtcNumbers, csvWriter, writeCalls, outFile, res, nextError,
                        unhandledRejection>>]_vars
  /\ [](\A i \in Range(rejectedRows) : DOMAIN rows[i] \cap identityFields = {})
  /\ [](\A i \in Range(results) : "rejectionReason" \notin DOMAIN rows[i])
  /\ [](results # <<>> =>
          /\ isLabelRow(rows[results[1]])
          /\ \A i \in 1..(results[1] - 1) : i \in Range(rejectedRows))

C17_Witness ==
  /\ Len(results) >= 1
  /\ Len(rejectedRows) >= 2
  /\ rejectedRows[2] < results[1]

\* C18: both buffers keep the input order: each holds rows read so far, in
\* the order they were read; a step only appends to a buffer, never removes
\* or reorders, and leaves the rows already read as they are; the drop of
\* the first rejected entry in the report leaves rejectedRows whole.
C18_OrderPreserved ==
  /\ [](/\ Range(results) \subseteq DOMAIN rows
        /\ Range(rejectedRows) \subseteq DOMAIN rows
        /\ \A i, j \in DOMAIN results : i < j => results[i] < results[j]
        /\ \A i, j \in DOMAIN rejectedRows : i < j => rejectedRows[i] < rejectedRows[j])
  /\ [][/\ isPrefix(results, results')
        /\ isPrefix(rejectedRows, rejectedRows')
        /\ isPrefix(rows, rows')]_vars
  /\ [](res.status = 201 =>
          Len(rejectedRows) = Len(res.payload.rejectedRows)
                                + (IF res.payload.rejected THEN 1 ELSE 0))

C18_Witness == res.status = 201 /\ Len(rejectedRows) >= 2 /\ Len(results) >= 1

\* C19: a request is answered at most once: never both a 201 response and
\* an error passed to next(), and an answer given is not changed; a 201
\* response implies the file was written from a non-empty accepted buffer
\* with a mapped upload type. A request without a file fails with
\* MissingFile before the fetch: no fetch call, no row, no write.
C19_AnsweredOnce ==
  /\ [](~(res.status = 201 /\ nextError # None))
  /\ [][(res.status = 201 \/ nextError # None) => (res' = res /\ nextError' = nextError)]_vars
  /\ [](res.status = 201 =>
          /\ outFile.exists
          /\ Len(outFile.records) = Len(results)
          /\ Len(results) > 0
          /\ uploadType \in {"clients", "contacts", "results"}
          /\ unhandledRejection = None)
  /\ []((pc # "idle" /\ ~req.file.present) =>
          /\ pc = "aborted"
          /\ nextError = MissingFile
          /\ fetchCalls = 0
          /\ ~ctcNumbersResponse.received
          /\ rows = <<>> /\ results = <<>> /\ rejectedRows = <<>>
          /\ writeCalls = 0
          /\ ~outFile.exists
          /\ res.status # 201)

C19_Witness == pc = "aborted" /\ ~req.file.present /\ nextError = MissingFile

\* The locals of a call that runs alone on request r, gets the reference
\* set `existing` and has read n lines.
RECURSIVE runAlone(_, _, _, _)
runAlone(c, r, existing, n) ==
  IF n = 0
  THEN fetchResolvedCall(createCall(IdleCall(c), r), [ok |-> TRUE, ctcNumbers |-> existing])
  ELSE onDataCall(runAlone(c, r, existing, n - 1))

\* The call has passed its fetch.
hasStreamed(s) == s.pc \in {"streaming", "writing", "done"}

\* The call's writeRecords has resolved.
hasWritten(s) == s.res.status = 201

\* C15: for two requests whose steps interleave in any order, the accepted
\* buffer, rejected buffer, rows, first-row flag and report of each are
\* those of the request running alone on its own file, caller identity and
\* fetched reference set; a step of one call leaves the locals of the other
\* unchanged; a file on disk is what one of the calls wrote to that path,
\* and a write replaces the file at its own path only, so that of two
\* writes to one path the later one wins.
C15_CallsIndependent ==
  /\ [](\A c \in CallIds :
          LET s == calls[c]
              alone == runAlone(c, s.req, s.existingCtcNumbers, Len(s.rows))
          IN hasStreamed(s) =>
               /\ s.uploadType = alone.uploadType
               /\ s.rows = alone.rows
               /\ s.results = alone.results
               /\ s.rejectedRows = alone.rejectedRows
               /\ s.isFirstRow = alone.isFirstRow
               /\ hasWritten(s) => s.res = respondCall(onEndCall(alone)).res)
  /\ [][\A c, d \in CallIds : (c # d /\ calls'[c] # calls[c]) => calls'[d] = calls[d]]_vars
  /\ [](\A p \in DOMAIN disk :
          \E c \in CallIds :
            hasWritten(calls[c]) /\ calls[c].csvWriter.path = p /\ disk[p] = writtenBy(calls[c]))
  /\ [][\A c \in CallIds :
          (hasWritten(calls'[c]) /\ ~hasWritten(calls[c])) =>
            /\ disk'[calls[c].csvWriter.path] = writtenBy(calls[c])
            /\ \A p \in DOMAIN disk : p # calls[c].csvWriter.path => disk'[p] = disk[p]]_vars
  /\ [][disk' # disk => \E c \in CallIds : hasWritten(calls'[c]) /\ ~hasWritten(calls[c])]_vars

\* Both calls accepted rows after interleaved 'data' steps and wrote to the
\* same path; the file is what one of them wrote and not what the other did.
C15_Witness ==
  /\ hasWritten(calls[1]) /\ hasWritten(calls[2])
  /\ calls[1].csvWriter.path = calls[2].csvWriter.path
  /\ Len(calls[1].results) >= 2 /\ Len(calls[2].results) >= 2
  /\ writtenBy(calls[1]) # writtenBy(calls[2])
  /\ disk[calls[1].csvWriter.path] = writtenBy(calls[1])

====
